---- MODULE Spec2Model ----
(***************************************************************************)
(* A model of the Cognee web server (src/server.py) and of the demo script *)
(* (src/cognee_example.py).                                                *)
(*                                                                         *)
(* Python strings are sequences of one-character strings, so that slicing, *)
(* len(), replace() and strip() are computed and not assumed.  A Python or *)
(* Neo4j value is a record [t |-> "str", s |-> chars], [t |-> "int",       *)
(* v |-> n] or [t |-> "none"].                                             *)
(***************************************************************************)
EXTENDS Integers, Sequences, FiniteSets, TLC

\* ------------------------------------------------------------------------
\* Program constants
\* ------------------------------------------------------------------------
SubstringLen == 200
PreviewMax == 150
LabelMax == 40
IdLabelLen == 30
NodeLimit == 500
EdgeLimit == 1000
NumDemoDocs == 4
NumDemoQueries == 4

\* ------------------------------------------------------------------------
\* Bounds of the model
\* ------------------------------------------------------------------------
\* Lengths are drawn within Slack of 0 and of each program constant.
Slack == 2
\* Leading / trailing whitespace runs of a chunk text are at most MaxPad long.
MaxPad == 1
\* The library answers a search with at most MaxResults items.
MaxResults == 2
\* Documents the client may add, chunks per document, entities.
NumDocs == 2
ChunksPerDoc == 2
NumEntities == 2
\* Drivers that failed requests may leave open before the model stops
\* injecting failures.
MaxLeak == 2

\* ------------------------------------------------------------------------
\* Python values and strings
\* ------------------------------------------------------------------------
StrVal(s) == [t |-> "str", s |-> s]
IntVal(n) == [t |-> "int", v |-> n]
NoneVal == [t |-> "none"]

Min(a, b) == IF a <= b THEN a ELSE b

\* s[:n]
Take(s, n) == SubSeq(s, 1, Min(Len(s), n))

\* n copies of the character c
Rep(n, c) == [i \in 1..n |-> c]

Ellipsis == <<".", ".", ".">>

Whitespace == {" ", "\t", "\n", "\r"}

DigitChar(d) == CASE d = 0 -> "0" [] d = 1 -> "1" [] d = 2 -> "2" [] d = 3 -> "3"
                  [] d = 4 -> "4" [] d = 5 -> "5" [] d = 6 -> "6" [] d = 7 -> "7"
                  [] d = 8 -> "8" [] d = 9 -> "9"

RECURSIVE Digits(_)
Digits(n) == IF n < 10 THEN <<DigitChar(n)>>
             ELSE Append(Digits(n \div 10), DigitChar(n % 10))

\* str(v)
PyStr(v) == CASE v.t = "str" -> v.s
              [] v.t = "int" -> Digits(v.v)
              [] v.t = "none" -> <<"N", "o", "n", "e">>

\* bool(v)
Truthy(v) == CASE v.t = "str" -> Len(v.s) > 0
               [] v.t = "int" -> v.v # 0
               [] v.t = "none" -> FALSE

\* s.replace('\n', ' ')
ReplaceNewlines(s) == [i \in 1..Len(s) |-> IF s[i] = "\n" THEN " " ELSE s[i]]

\* s.strip(), for the whitespace characters the texts here hold
Strip(s) ==
    LET keep == {i \in 1..Len(s) : s[i] \notin Whitespace}
    IN  IF keep = {} THEN <<>>
        ELSE LET lo == CHOOSE i \in keep : \A j \in keep : i <= j
                 hi == CHOOSE i \in keep : \A j \in keep : j <= i
             IN  SubSeq(s, lo, hi)

\* ------------------------------------------------------------------------
\* list_documents: the preview of one result row
\* ------------------------------------------------------------------------
\* Cypher substring(c.text, 0, 200); null for a null text
CypherSubstring(text) ==
    IF text.t = "none" THEN NoneVal ELSE StrVal(Take(text.s, SubstringLen))

\* (record['preview'] or '').replace('\n', ' ').strip()
CleanPreview(raw) == Strip(ReplaceNewlines(IF Truthy(raw) THEN raw.s ELSE <<>>))

\* faulty variant: the cut taken at len(preview) >= 150
CutPreviewAtLimit(p) == IF Len(p) >= PreviewMax THEN Take(p, PreviewMax) \o Ellipsis ELSE p

\* preview[:150] + "..." if len(preview) > 150 else preview
CutPreview(p) == IF Len(p) > PreviewMax THEN Take(p, PreviewMax) \o Ellipsis ELSE p

\* ------------------------------------------------------------------------
\* get_graph_data_api: one node row, one edge row, the two LIMITs
\* ------------------------------------------------------------------------
\* A node is [labels |-> sequence of strings, props |-> function from a
\* subset of PropKeys to values, element_id |-> string].
PropKeys == {"name", "text", "id"}

NodeMarker == <<"_", "_", "N", "o", "d", "e", "_", "_">>
UnknownType == <<"U", "n", "k", "n", "o", "w", "n">>

\* dict.get(key, default)
Get(props, key, default) == IF key \in DOMAIN props THEN props[key] ELSE default

\* next((l for l in labels if l != "__Node__"), "Unknown")
NodeType(labels) ==
    LET real == SelectSeq(labels, LAMBDA l : l # NodeMarker)
    IN  IF real = <<>> THEN UnknownType ELSE Head(real)

\* faulty variant: "text" looked up before "name"
RawLabelTextFirst(props) ==
    Get(props, "text",
        Get(props, "name",
            StrVal(Take(PyStr(Get(props, "id", StrVal(<<>>))), IdLabelLen))))

\* props.get("name", props.get("text", str(props.get("id", ""))[:30]))
RawLabel(props) ==
    Get(props, "name",
        Get(props, "text",
            StrVal(Take(PyStr(Get(props, "id", StrVal(<<>>))), IdLabelLen))))

\* if label and len(label) > 40: len() of a number raises TypeError
LabelRaises(label) == Truthy(label) /\ label.t # "str"

\* label = label[:40] + "..."
CutLabel(label) ==
    IF Truthy(label) /\ Len(label.s) > LabelMax
    THEN StrVal(Take(label.s, LabelMax) \o Ellipsis)
    ELSE label

\* label or node_type
LabelOr(label, node_type) == IF Truthy(label) THEN label ELSE StrVal(node_type)

\* whether the loop body raises on this row
NodeRaises(node) == LabelRaises(RawLabel(node.props))

\* the dict appended to nodes
NodeEntry(node) ==
    LET node_type == NodeType(node.labels)
        label == CutLabel(RawLabel(node.props))
    IN  [id |-> Get(node.props, "id", StrVal(node.element_id)),
         label |-> LabelOr(label, node_type),
         type |-> node_type,
         title |-> <<"T", "y", "p", "e", ":", " ">> \o node_type
                     \o <<"\\", "n">> \o PyStr(label)]

\* An edge row is [from_id, to_id, rel_type].
EdgeEntry(row) ==
    [from |-> row.from_id, to |-> row.to_id, label |-> row.rel_type,
     title |-> row.rel_type]

\* faulty variant: the query sent without its LIMIT
CypherUnlimited(rows, n) == rows

\* Cypher LIMIT n
CypherLimit(rows, n) == Take(rows, n)

\* The body of the with block: both queries and both loops.
GraphData(nodeRows, edgeRows) ==
    LET nrows == CypherLimit(nodeRows, NodeLimit)
        erows == CypherLimit(edgeRows, EdgeLimit)
    IN  IF \E i \in 1..Len(nrows) : NodeRaises(nrows[i])
        THEN [ok |-> FALSE, error |-> "TypeError"]
        ELSE [ok |-> TRUE,
              nodes |-> [i \in 1..Len(nrows) |-> NodeEntry(nrows[i])],
              edges |-> [i \in 1..Len(erows) |-> EdgeEntry(erows[i])]]

\* ------------------------------------------------------------------------
\* search: turning the library's results into answers
\* ------------------------------------------------------------------------
\* The library returns NoneVal or [t |-> "list", items |-> sequence].  An
\* item is a string, [t |-> "dict", d |-> function from keys to values],
\* [t |-> "obj", text |-> value] (an object with a text attribute) or
\* [t |-> "other", tag |-> n] (any other object).
ListVal(items) == [t |-> "list", items |-> items]
DictVal(d) == [t |-> "dict", d |-> d]
ObjVal(text) == [t |-> "obj", text |-> text]
OtherVal(n) == [t |-> "other", tag |-> n]

\* str(x) of a non-string: a string that names the value it was made from
Repr(x) == [t |-> "str", repr |-> x]

\* str(x)
Stringify(x) == IF x.t = "str" THEN x ELSE Repr(x)

\* bool(x) for the values a search can return
Nonempty(x) == CASE x.t = "list" -> Len(x.items) > 0
                 [] x.t = "none" -> FALSE
                 [] x.t = "str" -> IF "s" \in DOMAIN x THEN Len(x.s) > 0 ELSE TRUE
                 [] x.t = "dict" -> DOMAIN x.d # {}
                 [] OTHER -> TRUE

\* result.get('search_result', [])
SearchResultOf(result) ==
    IF "search_result" \in DOMAIN result.d THEN result.d["search_result"]
    ELSE ListVal(<<>>)

\* server.py: what one result adds to answers
ServerAnswers(result) ==
    CASE result.t = "str" -> <<result>>
      [] result.t = "dict" ->
            LET search_result == SearchResultOf(result)
            IN  IF search_result.t = "list" THEN search_result.items
                ELSE <<Stringify(search_result)>>
      [] result.t = "obj" -> <<result.text>>
      [] OTHER -> <<Stringify(result)>>

RECURSIVE Flatten(_)
Flatten(ss) == IF ss = <<>> THEN <<>> ELSE Head(ss) \o Flatten(Tail(ss))

\* faulty variant: a placeholder answer for an empty result, as the demo prints one
SearchAnswersPlaceholder(results) ==
    IF Nonempty(results)
    THEN Flatten([i \in 1..Len(results.items) |-> ServerAnswers(results.items[i])])
    ELSE <<StrVal(<<"N", "o", " ", "r", "e", "s", "u", "l", "t", "s">>)>>

\* server.py: the answers list after the loop
SearchAnswers(results) ==
    IF Nonempty(results)
    THEN Flatten([i \in 1..Len(results.items) |-> ServerAnswers(results.items[i])])
    ELSE <<>>

\* cognee_example.py: the answer printed for a non-empty result list
DemoAnswer(results) ==
    LET result == results.items[1]
    IN  CASE result.t = "str" -> result
          [] result.t = "obj" -> result.text
          [] result.t = "dict" ->
                LET search_result == SearchResultOf(result)
                IN  IF Nonempty(search_result)
                    THEN IF search_result.t = "list" THEN search_result.items[1]
                         ELSE search_result
                    ELSE Stringify(result)
          [] OTHER -> Stringify(result)

NoResultsLine == [kind |-> "none"]

\* cognee_example.py: the "A: ..." line of one query
DemoLine(results) ==
    IF Nonempty(results) THEN [kind |-> "answer", text |-> Stringify(DemoAnswer(results))]
    ELSE NoResultsLine

\* ------------------------------------------------------------------------
\* The graph store: what cognify writes and what the Cypher queries match
\* ------------------------------------------------------------------------
\* A node is named by its id: <<"doc", d>>, <<"chunk", d, i>> (chunk i of
\* document d), <<"sum", d, i>> (the summary of that chunk), <<"ent", k>>.
\* An edge is [from, type, to].
DocNode(d) == <<"doc", d>>
ChunkNode(d, i) == <<"chunk", d, i>>
SumNode(d, i) == <<"sum", d, i>>
EntNode(k) == <<"ent", k>>

DocNums == 1..NumDocs
ChunkIdx == 0..(ChunksPerDoc - 1)

IsDoc(n) == n[1] = "doc"
IsChunk(n) == n[1] = "chunk"
IsSummary(n) == n[1] = "sum"
IsEntity(n) == n[1] = "ent"

Edge(a, ty, b) == [from |-> a, type |-> ty, to |-> b]

\* the entity chunk i of document d mentions (entities are shared by documents)
Mentioned(d, i) == EntNode(((d + i) % NumEntities) + 1)

\* the subgraph cognify writes for document d
DocGraph(d) ==
    [nodes |-> {DocNode(d)}
               \cup {ChunkNode(d, i) : i \in ChunkIdx}
               \cup {SumNode(d, i) : i \in ChunkIdx}
               \cup {Mentioned(d, i) : i \in ChunkIdx},
     edges |-> {Edge(ChunkNode(d, i), "is_part_of", DocNode(d)) : i \in ChunkIdx}
               \cup {Edge(ChunkNode(d, i), "has_summary", SumNode(d, i)) : i \in ChunkIdx}
               \cup {Edge(ChunkNode(d, i), "contains", Mentioned(d, i)) : i \in ChunkIdx}]

EmptyGraph == [nodes |-> {}, edges |-> {}]

\* DETACH DELETE of the matched nodes
DetachDelete(g, victims) ==
    [nodes |-> g.nodes \ victims,
     edges |-> {e \in g.edges : e.from \notin victims /\ e.to \notin victims}]

\* MATCH (c:DocumentChunk)-[:is_part_of]->(d:TextDocument {id: $doc_id})
ChunksOfDoc(g, doc_id) ==
    {c \in g.nodes : IsChunk(c) /\ doc_id \in g.nodes /\ IsDoc(doc_id)
                     /\ Edge(c, "is_part_of", doc_id) \in g.edges}

\* faulty variant: the document matched without its id
DocsWithIdUnfiltered(g, doc_id) == {d \in g.nodes : IsDoc(d)}

\* MATCH (d:TextDocument {id: $doc_id})
DocsWithId(g, doc_id) == {d \in g.nodes : IsDoc(d) /\ d = doc_id}

\* MATCH (s:TextSummary) WHERE NOT EXISTS { MATCH (s)<-[:has_summary]-() }
OrphanSummaries(g) ==
    {s \in g.nodes : IsSummary(s)
                     /\ ~\E e \in g.edges : e.type = "has_summary" /\ e.to = s}

DeleteChunksQuery(g, doc_id) == DetachDelete(g, ChunksOfDoc(g, doc_id))
DeleteDocQuery(g, doc_id) == DetachDelete(g, DocsWithId(g, doc_id))
SweepQuery(g) == DetachDelete(g, OrphanSummaries(g))

\* ---- node properties, as cognify writes them
IdChars(n) ==
    CASE IsDoc(n) -> <<"d">> \o Digits(n[2])
      [] IsChunk(n) -> <<"c">> \o Digits(n[2]) \o <<".">> \o Digits(n[3])
      [] IsSummary(n) -> <<"s">> \o Digits(n[2]) \o <<".">> \o Digits(n[3])
      [] IsEntity(n) -> <<"e">> \o Digits(n[2])

DocName(d) == <<"t", "e", "x", "t", "_">> \o Digits(d)
CreatedAt(d) == d
ChunkText(d, i) == <<" ">> \o Rep(d + 1, "x") \o <<"\n">> \o Rep(i + 1, "y")

TextDocument == <<"T", "e", "x", "t", "D", "o", "c", "u", "m", "e", "n", "t">>
DocumentChunk == <<"D", "o", "c", "u", "m", "e", "n", "t", "C", "h", "u", "n", "k">>
TextSummary == <<"T", "e", "x", "t", "S", "u", "m", "m", "a", "r", "y">>
Entity == <<"E", "n", "t", "i", "t", "y">>

NodeRecord(n) ==
    LET id == "id" :> StrVal(IdChars(n))
    IN  CASE IsDoc(n) -> [labels |-> <<NodeMarker, TextDocument>>, element_id |-> IdChars(n),
                          props |-> id @@ ("name" :> StrVal(DocName(n[2])))]
          [] IsChunk(n) -> [labels |-> <<NodeMarker, DocumentChunk>>, element_id |-> IdChars(n),
                            props |-> id @@ ("text" :> StrVal(ChunkText(n[2], n[3])))]
          [] IsSummary(n) -> [labels |-> <<NodeMarker, TextSummary>>, element_id |-> IdChars(n),
                              props |-> id @@ ("text" :> StrVal(<<"s", "u", "m">>))]
          [] IsEntity(n) -> [labels |-> <<NodeMarker, Entity>>, element_id |-> IdChars(n),
                             props |-> id @@ ("name" :> StrVal(<<"E">> \o Digits(n[2])))]

\* ---- the read queries
RECURSIVE SetToSeq(_)
SetToSeq(S) == IF S = {} THEN <<>>
               ELSE LET x == CHOOSE y \in S : TRUE IN <<x>> \o SetToSeq(S \ {x})

\* ORDER BY d.created_at DESC
RECURSIVE NewestFirst(_)
NewestFirst(rows) ==
    IF rows = {} THEN <<>>
    ELSE LET r == CHOOSE x \in rows : \A y \in rows : y.created_at <= x.created_at
         IN  <<r>> \o NewestFirst(rows \ {r})

\* MATCH (c:DocumentChunk)-[:is_part_of]->(d:TextDocument) WHERE c.chunk_index = 0
\* RETURN d.id, d.name, d.created_at, substring(c.text, 0, 200)
ListQuery(g) ==
    NewestFirst({[id |-> StrVal(IdChars(e.to)),
                  name |-> StrVal(DocName(e.to[2])),
                  created_at |-> CreatedAt(e.to[2]),
                  preview |-> CypherSubstring(StrVal(ChunkText(e.from[2], e.from[3])))]
                 : e \in {x \in g.edges : x.type = "is_part_of" /\ IsChunk(x.from)
                                          /\ IsDoc(x.to) /\ x.from[3] = 0}})

\* the loop over the rows of list_documents
DocumentEntry(record) ==
    [id |-> record.id, name |-> record.name,
     preview |-> CutPreview(CleanPreview(record.preview)),
     created_at |-> record.created_at]

Documents(g) == LET rows == ListQuery(g)
                IN  [i \in 1..Len(rows) |-> DocumentEntry(rows[i])]

\* MATCH (n) RETURN n, labels(n)
NodeRows(g) == LET ns == SetToSeq(g.nodes) IN [i \in 1..Len(ns) |-> NodeRecord(ns[i])]

\* MATCH (a)-[r]->(b) RETURN a.id, b.id, type(r)
EdgeRows(g) ==
    LET es == SetToSeq(g.edges)
    IN  [i \in 1..Len(es) |-> [from_id |-> StrVal(IdChars(es[i].from)),
                               to_id |-> StrVal(IdChars(es[i].to)),
                               rel_type |-> es[i].type]]

\* ------------------------------------------------------------------------
\* State
\* ------------------------------------------------------------------------
VARIABLES
    graph,        \* the graph store: [nodes, edges]
    staged,       \* documents added to the library and not yet cognified
    openDrivers,  \* Neo4j drivers opened and not closed
    openSessions, \* Neo4j sessions opened and not closed
    call,         \* the last request: [op, arg, fail, msg]
    resp,         \* its response
    log,          \* the calls and connection events of the last request, in order
    pre,          \* the graph store as the last request found it
    input,        \* the argument of a function run on its own
    output,       \* its result
    demoPc,       \* cognee_example.py: where main() is
    demoI,        \* documents added so far
    demoQ,        \* queries answered so far
    demoLine,     \* the last "A: ..." line printed
    demoGot       \* what the last search gave: "empty", "nonempty" or "raised"

storeVars == <<graph, staged, openDrivers, openSessions>>
reqVars == <<call, resp, log, pre>>
pureVars == <<input, output>>
demoVars == <<demoPc, demoI, demoQ, demoLine, demoGot>>
vars == <<graph, staged, openDrivers, openSessions, call, resp, log, pre,
          input, output, demoPc, demoI, demoQ, demoLine, demoGot>>

\* ------------------------------------------------------------------------
\* Failures and responses
\* ------------------------------------------------------------------------
\* The messages of the exceptions the library and the driver raise.
Msgs == {"store unreachable", "timeout"}

NoFailure == [step |-> "none", msg |-> "-"]

\* A request either runs through or has one of its calls raise.
Failures(steps) ==
    {NoFailure} \cup {[step |-> steps[i], msg |-> m] : i \in 1..Len(steps), m \in Msgs}

Index(steps, step) == CHOOSE i \in 1..Len(steps) : steps[i] = step

\* the calls made: all of them, or those up to the one that raises
Attempted(steps, fail) ==
    IF fail = "none" THEN steps ELSE SubSeq(steps, 1, Index(steps, fail))

\* whether a call returned
Ran(steps, fail, step) ==
    fail = "none" \/ Index(steps, step) < Index(steps, fail)

Count(seq, x) == Cardinality({i \in 1..Len(seq) : seq[i] = x})

\* return {...}
Ok(body) == [status |-> 200, body |-> body]

\* faulty variant: the exception swallowed and answered as a success
FacadeErrorAsSuccess(msg) == [status |-> 200, body |-> [status |-> "success", message |-> msg]]

\* raise HTTPException(status_code=500, detail=str(e))
FacadeError(msg) == [status |-> 500, detail |-> <<msg>>]

\* raise HTTPException(status_code=500, detail=f"{str(e)}\n{traceback.format_exc()}")
GraphError(msg) == [status |-> 500, detail |-> <<msg, "traceback">>]

Message(text) == [status |-> "success", message |-> text]

\* try: driver = get_neo4j_driver(); with driver.session() as session: <queries>;
\* driver.close() -- the calls and the connection events of one graph request
GraphSteps(queries) == <<"get_neo4j_driver", "driver.session">> \o queries

GraphLog(queries, fail) ==
    LET steps == GraphSteps(queries)
    IN  <<"get_neo4j_driver">>
        \o (IF Ran(steps, fail, "get_neo4j_driver")
            THEN <<"driver.open", "driver.session">> ELSE <<>>)
        \o (IF Ran(steps, fail, "driver.session")
            THEN <<"session.open">>
                 \o SubSeq(Attempted(steps, fail), 3, Len(Attempted(steps, fail)))
                 \o <<"session.close">>
            ELSE <<>>)
        \o (IF fail = "none" THEN <<"driver.close">> ELSE <<>>)

Opened(events, what) == Count(events, what \o ".open") - Count(events, what \o ".close")

\* A failure that leaves a driver open is injected only below the model's bound.
LeakBounded(f) ==
    f.step \notin {"none", "get_neo4j_driver"} => openDrivers < MaxLeak

Connections(events) ==
    /\ openDrivers' = openDrivers + Opened(events, "driver")
    /\ openSessions' = openSessions + Opened(events, "session")

Request(op, arg, f) == [op |-> op, arg |-> arg, fail |-> f.step, msg |-> f.msg]

\* ------------------------------------------------------------------------
\* server.py: the handlers that delegate to the memory library
\* ------------------------------------------------------------------------
\* The server handles one request at a time: a handler runs when the response
\* to the request before it has been sent.
NoRequest == [op |-> "none", arg |-> <<>>, fail |-> "none", msg |-> "-"]
NoResponse == [status |-> 0]

Server == call = NoRequest

\* uvicorn sends the response and waits for the next request
SendResponse ==
    /\ call # NoRequest
    /\ call' = NoRequest
    /\ resp' = NoResponse
    /\ log' = <<>>
    /\ pre' = EmptyGraph
    /\ UNCHANGED <<storeVars, pureVars, demoVars>>

\* POST /api/add
AddText(d, f) ==
    /\ Server
    /\ call' = Request("add", d, f)
    /\ pre' = graph
    /\ log' = Attempted(<<"cognee.add">>, f.step)
    /\ staged' = IF f.step = "none" THEN staged \cup {d} ELSE staged
    /\ resp' = IF f.step = "none" THEN Ok(Message("Text added to knowledge base"))
               ELSE FacadeError(f.msg)
    /\ UNCHANGED <<graph, openDrivers, openSessions, pureVars, demoVars>>

\* cognee.cognify(): every staged document not yet in the graph is written to it
Cognified(g, docs) ==
    [nodes |-> g.nodes \cup UNION {DocGraph(d).nodes : d \in {x \in docs : DocNode(x) \notin g.nodes}},
     edges |-> g.edges \cup UNION {DocGraph(d).edges : d \in {x \in docs : DocNode(x) \notin g.nodes}}]

\* POST /api/cognify
Cognify(f) ==
    /\ Server
    /\ call' = Request("cognify", <<>>, f)
    /\ pre' = graph
    /\ log' = Attempted(<<"cognee.cognify">>, f.step)
    /\ graph' = IF f.step = "none" THEN Cognified(graph, staged) ELSE graph
    /\ staged' = IF f.step = "none" THEN {} ELSE staged
    /\ resp' = IF f.step = "none" THEN Ok(Message("Knowledge graph built successfully"))
               ELSE FacadeError(f.msg)
    /\ UNCHANGED <<openDrivers, openSessions, pureVars, demoVars>>

\* POST /api/search; results is what cognee.search returns
Search(results, f) ==
    /\ Server
    /\ call' = Request("search", results, f)
    /\ pre' = graph
    /\ log' = Attempted(<<"cognee.search">>, f.step)
    /\ resp' = IF f.step = "none"
               THEN Ok([status |-> "success", results |-> SearchAnswers(results)])
               ELSE FacadeError(f.msg)
    /\ UNCHANGED <<storeVars, pureVars, demoVars>>

ResetSteps == <<"prune_data", "prune_system">>

\* POST /api/reset
Reset(f) ==
    /\ Server
    /\ call' = Request("reset", <<>>, f)
    /\ pre' = graph
    /\ log' = Attempted(ResetSteps, f.step)
    /\ staged' = IF Ran(ResetSteps, f.step, "prune_data") THEN {} ELSE staged
    /\ graph' = IF Ran(ResetSteps, f.step, "prune_system") THEN EmptyGraph ELSE graph
    /\ resp' = IF f.step = "none" THEN Ok(Message("Knowledge base reset"))
               ELSE FacadeError(f.msg)
    /\ UNCHANGED <<openDrivers, openSessions, pureVars, demoVars>>

\* ------------------------------------------------------------------------
\* server.py: the handlers that query the graph store
\* ------------------------------------------------------------------------
ListQueries == <<"list_query">>

\* GET /api/documents
ListDocuments(f) ==
    /\ Server
    /\ LeakBounded(f)
    /\ call' = Request("list", <<>>, f)
    /\ pre' = graph
    /\ log' = GraphLog(ListQueries, f.step)
    /\ Connections(log')
    /\ resp' = IF f.step = "none" THEN Ok([documents |-> Documents(graph)])
               ELSE GraphError(f.msg)
    /\ UNCHANGED <<graph, staged, pureVars, demoVars>>

DeleteQueries == <<"delete_chunks", "delete_doc", "sweep">>

\* faulty variant: the document deleted before its chunks are matched
DeleteEffectDocFirst(g, doc_id, fail) ==
    LET steps == GraphSteps(<<"delete_chunks", "delete_doc", "sweep">>)
        g1 == IF Ran(steps, fail, "delete_chunks") THEN DeleteDocQuery(g, doc_id) ELSE g
        g2 == IF Ran(steps, fail, "delete_doc") THEN DeleteChunksQuery(g1, doc_id) ELSE g1
    IN  IF Ran(steps, fail, "sweep") THEN SweepQuery(g2) ELSE g2

\* the three session.run calls, each committed as it returns
DeleteEffect(g, doc_id, fail) ==
    LET steps == GraphSteps(DeleteQueries)
        g1 == IF Ran(steps, fail, "delete_chunks") THEN DeleteChunksQuery(g, doc_id) ELSE g
        g2 == IF Ran(steps, fail, "delete_doc") THEN DeleteDocQuery(g1, doc_id) ELSE g1
    IN  IF Ran(steps, fail, "sweep") THEN SweepQuery(g2) ELSE g2

\* DELETE /api/documents/{doc_id}
DeleteDocument(doc_id, f) ==
    /\ Server
    /\ LeakBounded(f)
    /\ call' = Request("delete", doc_id, f)
    /\ pre' = graph
    /\ log' = GraphLog(DeleteQueries, f.step)
    /\ Connections(log')
    /\ graph' = DeleteEffect(graph, doc_id, f.step)
    /\ resp' = IF f.step = "none" THEN Ok(Message("Document deleted"))
               ELSE GraphError(f.msg)
    /\ UNCHANGED <<staged, pureVars, demoVars>>

GraphQueries == <<"nodes_query", "edges_query">>

\* a row the node loop cannot label raises before the second query is sent
GraphFailure(data, f) ==
    IF ~data.ok /\ f.step \in {"none", "edges_query"}
    THEN [step |-> "nodes_query", msg |-> data.error]
    ELSE f

\* GET /api/graph-data
GetGraphData(f) ==
    LET data == GraphData(NodeRows(graph), EdgeRows(graph))
        g == GraphFailure(data, f)
    IN  /\ Server
        /\ LeakBounded(g)
        /\ call' = Request("graph", <<>>, g)
        /\ pre' = graph
        /\ log' = GraphLog(GraphQueries, g.step)
        /\ Connections(log')
        /\ resp' = IF g.step = "none" THEN Ok([nodes |-> data.nodes, edges |-> data.edges])
                   ELSE GraphError(g.msg)
        /\ UNCHANGED <<graph, staged, pureVars, demoVars>>

\* the ids a client may ask to delete: any document's, one no node has, and
\* the id of a node that is no document
DeleteIds == {DocNode(d) : d \in DocNums} \cup {DocNode(0), EntNode(1)}

\* what the library answers to the server's searches in this specification
FewResults == {NoneVal, ListVal(<<>>), ListVal(<<StrVal(<<"a">>)>>)}

Init ==
    /\ graph = EmptyGraph
    /\ staged = {}
    /\ openDrivers = 0
    /\ openSessions = 0
    /\ call = NoRequest
    /\ resp = NoResponse
    /\ log = <<>>
    /\ pre = EmptyGraph
    /\ input = <<>>
    /\ output = [of |-> "nothing"]
    /\ demoPc = "reset"
    /\ demoI = 0
    /\ demoQ = 0
    /\ demoLine = [kind |-> "start"]
    /\ demoGot = "nothing"

Next ==
    \/ \E d \in DocNums, f \in Failures(<<"cognee.add">>) : AddText(d, f)
    \/ \E f \in Failures(<<"cognee.cognify">>) : Cognify(f)
    \/ \E r \in FewResults, f \in Failures(<<"cognee.search">>) : Search(r, f)
    \/ \E f \in Failures(ResetSteps) : Reset(f)
    \/ \E f \in Failures(GraphSteps(ListQueries)) : ListDocuments(f)
    \/ \E id \in DeleteIds, f \in Failures(GraphSteps(DeleteQueries)) : DeleteDocument(id, f)
    \/ \E f \in Failures(GraphSteps(GraphQueries)) : GetGraphData(f)
    \/ SendResponse

Spec == Init /\ [][Next]_vars

\* ------------------------------------------------------------------------
\* cognee_example.py: main(), one action per awaited library call
\* ------------------------------------------------------------------------
Demo(pc) == demoPc = pc

\* an exception outside the query loop ends main()
After(f, pc) == IF f.step = "none" THEN pc ELSE "crashed"

\* await cognee.prune.prune_data(); await cognee.prune.prune_system(metadata=True)
DemoReset(f) ==
    /\ Demo("reset")
    /\ staged' = IF Ran(ResetSteps, f.step, "prune_data") THEN {} ELSE staged
    /\ graph' = IF Ran(ResetSteps, f.step, "prune_system") THEN EmptyGraph ELSE graph
    /\ demoPc' = After(f, "add")
    /\ UNCHANGED <<openDrivers, openSessions, reqVars, pureVars,
                   demoI, demoQ, demoLine, demoGot>>

\* for i, doc in enumerate(documents, 1): await cognee.add(doc.strip())
DemoAdd(f) ==
    /\ Demo("add")
    /\ staged' = IF f.step = "none" THEN staged \cup {demoI + 1} ELSE staged
    /\ demoI' = IF f.step = "none" THEN demoI + 1 ELSE demoI
    /\ demoPc' = After(f, IF demoI + 1 = NumDemoDocs THEN "cognify" ELSE "add")
    /\ UNCHANGED <<graph, openDrivers, openSessions, reqVars, pureVars,
                   demoQ, demoLine, demoGot>>

\* await cognee.cognify()
DemoCognify(f) ==
    /\ Demo("cognify")
    /\ graph' = IF f.step = "none" THEN Cognified(graph, staged) ELSE graph
    /\ staged' = IF f.step = "none" THEN {} ELSE staged
    /\ demoPc' = After(f, "query")
    /\ UNCHANGED <<openDrivers, openSessions, reqVars, pureVars,
                   demoI, demoQ, demoLine, demoGot>>

\* one turn of "for query in queries"; results is what cognee.search returns
DemoQuery(results, f) ==
    /\ Demo("query")
    /\ demoLine' = IF f.step = "none" THEN DemoLine(results)
                   ELSE [kind |-> "error", text |-> f.msg]
    /\ demoGot' = IF f.step # "none" THEN "raised"
                  ELSE IF Nonempty(results) THEN "nonempty" ELSE "empty"
    /\ demoQ' = demoQ + 1
    /\ demoPc' = IF demoQ + 1 = NumDemoQueries THEN "done" ELSE "query"
    /\ UNCHANGED <<storeVars, reqVars, pureVars, demoI>>

\* ---- what the library may answer to a search
SearchItems ==
    {StrVal(<<"a">>),
     DictVal(<<>>),
     DictVal("search_result" :> ListVal(<<>>)),
     DictVal("search_result" :> ListVal(<<StrVal(<<"b">>), StrVal(<<"c">>)>>)),
     DictVal("search_result" :> StrVal(<<"d">>)),
     ObjVal(StrVal(<<"e">>)),
     OtherVal(1)}

SearchResults ==
    {NoneVal} \cup {ListVal(items) : items \in UNION {[1..n -> SearchItems] : n \in 0..MaxResults}}

\* main() reads only results[0]
DemoResults == {NoneVal, ListVal(<<>>)} \cup {ListVal(<<x>>) : x \in SearchItems}

InitSearch ==
    /\ graph = EmptyGraph
    /\ staged = {}
    /\ openDrivers = 0
    /\ openSessions = 0
    /\ call = NoRequest
    /\ resp = NoResponse
    /\ log = <<>>
    /\ pre = EmptyGraph
    /\ input = <<>>
    /\ output = [of |-> "nothing"]
    /\ demoPc = "reset"
    /\ demoI = 0
    /\ demoQ = 0
    /\ demoLine = [kind |-> "start"]
    /\ demoGot = "nothing"

NextSearch ==
    \/ \E r \in SearchResults : Search(r, NoFailure)
    \/ \E f \in Failures(<<"cognee.search">>) : Search(NoneVal, f)
    \/ SendResponse
    \/ \E f \in Failures(ResetSteps) : DemoReset(f)
    \/ \E f \in Failures(<<"cognee.add">>) : DemoAdd(f)
    \/ \E f \in Failures(<<"cognee.cognify">>) : DemoCognify(f)
    \/ \E r \in DemoResults : DemoQuery(r, NoFailure)
    \/ \E f \in Failures(<<"cognee.search">>) : DemoQuery(NoneVal, f)

SpecSearch == InitSearch /\ [][NextSearch]_vars

\* ------------------------------------------------------------------------
\* The preview of list_documents, run on chunk texts around its two lengths
\* ------------------------------------------------------------------------
Near(c) == {k \in (c - Slack)..(c + Slack) : k >= 0}

\* n characters: x, with a newline in the middle when nl
Body(n, nl) == [i \in 1..n |-> IF nl /\ n >= 3 /\ i = (n + 1) \div 2 THEN "\n" ELSE "x"]

Pads == {Rep(k, c) : k \in 0..MaxPad, c \in {" ", "\n", "\t"}}

PreviewTexts ==
    {NoneVal}
    \cup {StrVal(lead \o Body(n, nl) \o trail) :
            lead \in Pads, trail \in Pads, nl \in BOOLEAN,
            n \in Near(0) \cup Near(PreviewMax) \cup Near(SubstringLen)}

\* the row of one document whose zero-index chunk has this text
PreviewRow(text) ==
    [id |-> StrVal(<<"d", "1">>), name |-> StrVal(DocName(1)), created_at |-> CreatedAt(1),
     preview |-> CypherSubstring(text)]

InitPure(inputs) ==
    /\ graph = EmptyGraph
    /\ staged = {}
    /\ openDrivers = 0
    /\ openSessions = 0
    /\ call = NoRequest
    /\ resp = NoResponse
    /\ log = <<>>
    /\ pre = EmptyGraph
    /\ input \in inputs
    /\ output = [of |-> "nothing"]
    /\ demoPc = "reset"
    /\ demoI = 0
    /\ demoQ = 0
    /\ demoLine = [kind |-> "start"]
    /\ demoGot = "nothing"

InitPreview == InitPure(PreviewTexts)

\* the loop body of list_documents on that row
MakePreview ==
    /\ output.of = "nothing"
    /\ output' = [of |-> "preview", value |-> DocumentEntry(PreviewRow(input)).preview]
    /\ UNCHANGED <<storeVars, reqVars, input, demoVars>>

SpecPreview == InitPreview /\ [][MakePreview]_vars

\* ------------------------------------------------------------------------
\* The body of get_graph_data_api, run on one-node graphs of every shape and
\* on graphs around the two limits
\* ------------------------------------------------------------------------
\* n characters: a letter, then the digits of the positions
Str(letter, n) == [i \in 1..n |-> IF i = 1 THEN letter ELSE DigitChar(i % 10)]

Absent == [t |-> "absent"]

Prop(key, v) == IF v = Absent THEN <<>> ELSE key :> v

NameValues ==
    {Absent, IntVal(0), IntVal(7)}
    \cup {StrVal(Str("n", k)) : k \in Near(0) \cup Near(LabelMax)}

TextValues == {Absent} \cup {StrVal(Str("t", k)) : k \in {0} \cup (LabelMax..(LabelMax + Slack))}

IdValues ==
    {Absent, IntVal(12345)}
    \cup {StrVal(Str("i", k)) : k \in Near(0) \cup Near(IdLabelLen) \cup (LabelMax..(LabelMax + Slack))}

\* a type name longer than any cut label
LongType == Str("L", LabelMax + Len(Ellipsis) + Slack)

LabelLists ==
    {<<>>, <<NodeMarker>>, <<NodeMarker, Entity>>, <<Entity, NodeMarker>>, <<NodeMarker, LongType>>}

NodeShapes ==
    {[labels |-> l, element_id |-> <<"4", ":", "x", ":", "0">>,
      props |-> Prop("name", n) @@ Prop("text", t) @@ Prop("id", i)] :
        l \in LabelLists, n \in NameValues, t \in TextValues, i \in IdValues}

PlainNode(i) ==
    [labels |-> <<NodeMarker, Entity>>, element_id |-> Digits(i),
     props |-> "id" :> StrVal(Digits(i))]

PlainEdge(i) ==
    [from_id |-> StrVal(Digits(i)), to_id |-> StrVal(Digits(i + 1)), rel_type |-> "contains"]

GraphInputs ==
    {[nodes |-> <<node>>, edges |-> <<>>] : node \in NodeShapes}
    \cup {[nodes |-> [i \in 1..n |-> PlainNode(i)], edges |-> [i \in 1..m |-> PlainEdge(i)]] :
            n \in Near(0) \cup Near(NodeLimit), m \in Near(0) \cup Near(EdgeLimit)}

InitGraphData == InitPure(GraphInputs)

\* the with block of get_graph_data_api on those rows
MakeGraphData ==
    /\ output.of = "nothing"
    /\ output' = [of |-> "graph", value |-> GraphData(input.nodes, input.edges)]
    /\ UNCHANGED <<storeVars, reqVars, input, demoVars>>

SpecGraphData == InitGraphData /\ [][MakeGraphData]_vars

\* ========================================================================
\* Properties
\* ========================================================================
Range(seq) == {seq[i] : i \in 1..Len(seq)}

DocsIn(g) == {n \in g.nodes : IsDoc(n)}

GraphOps == {"list", "delete", "graph"}
FacadeOps == {"add", "cognify", "search", "reset"}

ConnectionEvents == {"driver.open", "driver.close", "session.open", "session.close"}

\* the library and driver calls of the last request, in order
Calls == SelectSeq(log, LAMBDA e : e \notin ConnectionEvents)

\* C1: after list_documents, delete_document or get_graph_data_api returns,
\* with a response or with an error, no driver and no session that the
\* request opened is still open.
C1_ConnectionsReleased ==
    call.op \in GraphOps => Opened(log, "driver") = 0 /\ Opened(log, "session") = 0

\* the one string the specification asks for per answer
NormalizedAnswer(result) ==
    CASE result.t = "str" -> result
      [] result.t = "dict" ->
            IF "search_result" \in DOMAIN result.d
               /\ result.d["search_result"].t = "list"
               /\ Len(result.d["search_result"].items) > 0
            THEN result.d["search_result"].items[1]
            ELSE Stringify(result)
      [] OTHER -> Stringify(result)

\* C2: /api/search returns exactly one string per answer of the library, in
\* the library's order: a string as it is, a record as the first element of
\* its non-empty "search_result" list and else stringified, any other object
\* stringified.
C2_OneStringPerAnswer ==
    (call.op = "search" /\ call.fail = "none") =>
        resp.body.results =
            IF call.arg.t = "list"
            THEN [i \in 1..Len(call.arg.items) |-> NormalizedAnswer(call.arg.items[i])]
            ELSE <<>>

\* C3: delete_document with an id that no Document has leaves the nodes and
\* the edges of the store as they were.
C3_UnknownIdIsNoOp ==
    (call.op = "delete" /\ call.arg \notin DocsIn(pre)) => graph = pre

\* C4: delete_document with an id that no Document has answers with the
\* success response whenever the store itself does not fail, and the number of
\* documents in the store and the number list_documents reports are the same
\* after the call as before it.
C4_UnknownIdKeepsDocuments ==
    (call.op = "delete" /\ call.arg \notin DocsIn(pre)) =>
        /\ call.fail = "none" => resp = Ok(Message("Document deleted"))
        /\ Cardinality(DocsIn(graph)) = Cardinality(DocsIn(pre))
        /\ Len(Documents(graph)) = Len(Documents(pre))

C4_Witness ==
    /\ call.op = "delete" /\ call.arg \notin DocsIn(pre) /\ call.fail = "none"
    /\ resp.status = 200
    /\ Cardinality(DocsIn(pre)) = NumDocs
    /\ Len(Documents(graph)) = NumDocs

\* no newline, and no whitespace at either end
IsClean(s) ==
    /\ \A i \in 1..Len(s) : s[i] # "\n"
    /\ s # <<>> => s[1] \notin Whitespace /\ s[Len(s)] \notin Whitespace

\* C5 as stated: a text of exactly 151 characters gives its first 150
\* characters and an ellipsis marker, a text of 150 characters or fewer gives
\* the text unchanged.
C5_PreviewOfAnyText ==
    (output.of = "preview" /\ input.t = "str") =>
        /\ Len(input.s) = PreviewMax + 1 =>
              output.value = SubSeq(input.s, 1, PreviewMax) \o Ellipsis
        /\ Len(input.s) <= PreviewMax => output.value = input.s

\* C5 as amended: the preview is made from the text cut to 200 characters,
\* its newlines turned into spaces and the whitespace at its ends removed;
\* that text gives its first 150 characters and an ellipsis marker when it is
\* longer than 150 characters (so when it has exactly 151) and itself when it
\* is not; a text of at most 200 characters with no newline and no whitespace
\* at its ends is not changed by this.
C5_PreviewOfNormalizedText ==
    (output.of = "preview" /\ input.t = "str") =>
        LET norm == Strip(ReplaceNewlines(SubSeq(input.s, 1, Min(Len(input.s), SubstringLen))))
        IN  /\ Len(norm) > PreviewMax => output.value = SubSeq(norm, 1, PreviewMax) \o Ellipsis
            /\ Len(norm) <= PreviewMax => output.value = norm
            /\ (IsClean(input.s) /\ Len(input.s) <= SubstringLen) => norm = input.s
            /\ (IsClean(input.s) /\ Len(input.s) = PreviewMax + 1) =>
                  output.value = SubSeq(input.s, 1, PreviewMax) \o Ellipsis
            /\ (IsClean(input.s) /\ Len(input.s) <= PreviewMax) => output.value = input.s

C5_Witness ==
    /\ output.of = "preview" /\ input.t = "str"
    /\ IsClean(input.s) /\ Len(input.s) = PreviewMax + 1
    /\ Len(output.value) = PreviewMax + Len(Ellipsis)

\* the property the label is derived from: name, else text, else the first
\* 30 characters of id
DerivedLabel(props) ==
    IF "name" \in DOMAIN props THEN props["name"]
    ELSE IF "text" \in DOMAIN props THEN props["text"]
    ELSE IF "id" \in DOMAIN props
         THEN StrVal(SubSeq(PyStr(props["id"]), 1, Min(Len(PyStr(props["id"])), IdLabelLen)))
         ELSE StrVal(<<>>)

\* a label longer than 40 characters cut to 40 and an ellipsis marker
CutTo40(label) ==
    IF label.t = "str" /\ Len(label.s) > LabelMax
    THEN StrVal(SubSeq(label.s, 1, LabelMax) \o Ellipsis)
    ELSE label

\* C6 as stated: the label returned for a node that has a name, a text or an
\* id is the derived label, cut when longer than 40 characters, and is a
\* string of at most 43 characters.
C6_LabelIsDerived ==
    (output.of = "graph" /\ output.value.ok) =>
        \A i \in 1..Len(output.value.nodes) :
            DOMAIN input.nodes[i].props # {} =>
                /\ output.value.nodes[i].label = CutTo40(DerivedLabel(input.nodes[i].props))
                /\ Len(output.value.nodes[i].label.s) <= LabelMax + Len(Ellipsis)

\* C6 as amended: the label is the derived label, cut when longer than 40
\* characters, unless the derived label is empty (an empty string, the number
\* 0, or no name, text and id at all), and then it is the node's type, uncut;
\* a label that comes from a property is a string of at most 43 characters;
\* the rows are answered at all exactly when no derived label is a number
\* other than 0.
C6_LabelIsDerivedOrType ==
    output.of = "graph" =>
        /\ output.value.ok <=>
              \A i \in 1..Min(Len(input.nodes), NodeLimit) :
                  LET d == DerivedLabel(input.nodes[i].props)
                  IN  d.t = "str" \/ d.v = 0
        /\ output.value.ok =>
              \A i \in 1..Len(output.value.nodes) :
                  LET d == DerivedLabel(input.nodes[i].props)
                      empty == IF d.t = "str" THEN d.s = <<>> ELSE d.v = 0
                      label == output.value.nodes[i].label
                  IN  /\ ~empty => /\ label = CutTo40(d)
                                   /\ Len(label.s) <= LabelMax + Len(Ellipsis)
                      /\ empty => label = StrVal(output.value.nodes[i].type)

C6_Witness ==
    /\ output.of = "graph" /\ output.value.ok
    /\ Len(input.nodes) = 1
    /\ DOMAIN input.nodes[1].props = PropKeys
    /\ input.nodes[1].props["name"].t = "str"
    /\ Len(input.nodes[1].props["name"].s) = LabelMax + 1
    /\ Len(input.nodes[1].props["text"].s) = LabelMax
    /\ Len(output.value.nodes[1].label.s) = LabelMax + Len(Ellipsis)
    /\ output.value.nodes[1].label.s[1] = "n"

\* C7: the graph data holds at most 500 nodes and at most 1000 edges, however
\* many the store holds.
C7_AtMostLimits ==
    (output.of = "graph" /\ output.value.ok) =>
        /\ Len(output.value.nodes) <= NodeLimit
        /\ Len(output.value.edges) <= EdgeLimit

C7_Witness ==
    /\ output.of = "graph" /\ output.value.ok
    /\ Len(input.nodes) > NodeLimit /\ Len(input.edges) > EdgeLimit
    /\ Len(output.value.nodes) = NodeLimit /\ Len(output.value.edges) = EdgeLimit

\* C8: when the library answers a search with None or with an empty list,
\* /api/search answers with the success envelope and an empty results list,
\* and the demo prints "No results found" and goes on to the next query (it
\* is done only after its last query).
C8_EmptyIsNotAnError ==
    /\ (call.op = "search" /\ call.fail = "none" /\ ~Nonempty(call.arg)) =>
          resp = [status |-> 200, body |-> [status |-> "success", results |-> <<>>]]
    /\ demoGot = "empty" =>
          /\ demoLine = NoResultsLine
          /\ demoPc \in {"query", "done"}
          /\ demoPc = "done" <=> demoQ = NumDemoQueries

C8_Witness ==
    /\ call.op = "search" /\ call.fail = "none" /\ call.arg = ListVal(<<>>)
    /\ resp.status = 200 /\ resp.body.results = <<>>
    /\ demoGot = "empty" /\ demoLine = NoResultsLine
    /\ demoPc = "query" /\ demoQ = 1

\* C9: when a call of a delegating handler raises, the handler makes no call
\* after it and none twice, returns no success body, and answers 500 with a
\* detail that holds the message of the exception, and the stack trace too
\* exactly for the three graph endpoints.
C9_FailureIs500 ==
    (call.op \in GraphOps \cup FacadeOps /\ call.fail # "none") =>
        /\ resp.status = 500
        /\ "body" \notin DOMAIN resp
        /\ call.msg \in Range(resp.detail)
        /\ "traceback" \in Range(resp.detail) <=> call.op \in GraphOps
        /\ Calls # <<>> /\ Calls[Len(Calls)] = call.fail
        /\ \A i, j \in 1..Len(Calls) : Calls[i] = Calls[j] => i = j

C9_Witness ==
    /\ call.op = "reset" /\ call.fail = "prune_data"
    /\ resp.status = 500 /\ resp.detail = <<call.msg>>
    /\ Calls = <<"prune_data">>
    /\ graph # EmptyGraph

\* C10: delete_document(id) removes nothing but the chunks linked to document
\* id by is_part_of, the document id, and Summary nodes left with no incoming
\* has_summary edge, and runs the three deletions in that order; every
\* Entity, every other Document and every chunk of another Document is kept;
\* after a successful call no Document with that id and none of its chunks
\* is left.
C10_DeleteFrame ==
    call.op = "delete" =>
        LET id == call.arg
            chunks == ChunksOfDoc(pre, id)
            removed == pre.nodes \ graph.nodes
            queries == SelectSeq(log, LAMBDA e : e \in Range(DeleteQueries))
        IN  /\ graph.nodes \subseteq pre.nodes /\ graph.edges \subseteq pre.edges
            /\ removed \subseteq chunks \cup DocsWithId(pre, id)
                                 \cup OrphanSummaries(DetachDelete(pre, chunks \cup DocsWithId(pre, id)))
            /\ queries = SubSeq(<<"delete_chunks", "delete_doc", "sweep">>, 1, Len(queries))
            /\ \A n \in pre.nodes :
                  (IsEntity(n) \/ (IsDoc(n) /\ n # id) \/ (IsChunk(n) /\ n \notin chunks))
                      => n \in graph.nodes
            /\ resp.status = 200 =>
                  /\ DocsWithId(graph, id) = {}
                  /\ chunks \cap graph.nodes = {}
                  /\ queries = <<"delete_chunks", "delete_doc", "sweep">>

C10_Witness ==
    /\ call.op = "delete" /\ resp.status = 200
    /\ Cardinality(DocsIn(pre)) = NumDocs
    /\ call.arg \in DocsIn(pre)
    /\ Cardinality(ChunksOfDoc(pre, call.arg)) = ChunksPerDoc
    /\ Cardinality(DocsIn(graph)) = NumDocs - 1
    /\ \E d \in DocsIn(graph) : Cardinality(ChunksOfDoc(graph, d)) = ChunksPerDoc
    /\ \E n \in graph.nodes : IsEntity(n)

====
